---------------------------- MODULE Spec2Model ----------------------------
(***************************************************************************)
(* A model of catpea/heebiejeebies: the Signal (reactive value), the       *)
(* Record context decoder, the marker stream builder and the attribute /   *)
(* node interpolation engines of the xml`` template tag.                   *)
(*                                                                         *)
(* Each component has its own specification (SpecSignal, SpecDecoder, ...) *)
(* over the shared variables; the variables a specification does not use   *)
(* keep their initial value.                                               *)
(***************************************************************************)
EXTENDS Integers, Sequences, FiniteSets, TLC

VARIABLES
  \* ---- Signal (src/unnamed/part_001:341-398) ----
  value,        \* Signal.#value
  subscribers,  \* Signal.#subscribers: a JS Set, kept in insertion order
  handles,      \* the unsubscribe closures returned so far: [cb, called]
  delivered,    \* the subscriber invocations made by the last operation
  lastOp,       \* the last operation performed on the Signal
  \* ---- decodeAttribute (src/unnamed/part_000:267-292) ----
  htmlStr,      \* the literal segment handed to decodeAttribute
  decoded,      \* what decodeAttribute returned for it
  \* ---- xml / createStream / createIntermediateHtml ----
  strings,      \* the template's literal segments
  values,       \* the template's interpolated values
  context,      \* the record database of the invocation
  stream,       \* createStream's result
  markup,       \* createIntermediateHtml's result
  phase,        \* how far the invocation has got
  \* ---- interpolateAttributes (src/unnamed/part_001:88-145) ----
  parsed,       \* node.attributes of each node, in walk order, as parsed
  nodes,        \* node.attributes of each node, in walk order, now
  nextId,       \* let id (generateId's counter)
  \* ---- interpolateNodes (src/unnamed/part_001:150-198) ----
  given,        \* the tree, database and nested results handed over
  rootChildren, \* root.children of the parent tree, now
  results,      \* the nested template results { root, unsubscribe, context }
  warned,       \* the markers console.warn was called for
  thrown,       \* the error the call ended with, "" for none
  \* ---- interpolateAttributes2 (src/unnamed/part_001:440-578) ----
  elements,     \* the tree's nodes, in walk order, with their live surfaces
  signals,      \* the Signals bound in the template: value and subscribers
  domOps,       \* the class updates, or the cleanup, of the last operation
  closures      \* the number of subscriber closures created so far

sigVars == <<value, subscribers, handles, delivered, lastOp>>
decVars == <<htmlStr, decoded>>
strVars == <<strings, values, context, stream, markup, phase>>
attVars == <<parsed, nodes, nextId>>
nodVars == <<given, rootChildren, results, warned, thrown>>
bndVars == <<elements, signals, domOps, closures>>

vars == <<sigVars, decVars, strVars, attVars, nodVars, bndVars>>

Range(s) == {s[i] : i \in DOMAIN s}

(***************************************************************************)
(* JavaScript values.  A value is a record [t, s]: its type tag and its    *)
(* printed form.                                                           *)
(***************************************************************************)
JsNull  == [t |-> "null", s |-> "null"]
JsUndef == [t |-> "undefined", s |-> "undefined"]
JsNum(s) == [t |-> "number", s |-> s]
JsStr(s) == [t |-> "string", s |-> s]
JsNaN   == JsNum("NaN")

\* The values assigned to the Signal in SpecSignal.
SignalValues == {JsNull, JsUndef, JsNum("0"), JsNum("1"), JsStr("0"), JsNaN}

\* ToNumber on the strings used here ("" and "0" are 0, "1" is 1).
ToNumber(v) ==
  IF v.t = "number" THEN v.s
  ELSE IF v.s = "" \/ v.s = "0" THEN "0"
  ELSE IF v.s = "1" THEN "1"
  ELSE "NaN"

\* The mutant of LooseEq: strict equality (===).
StrictEq(a, b) == a.t = b.t /\ a.s = b.s /\ ~(a.t = "number" /\ a.s = "NaN")

\* Objects (arrays, plain objects, Signals) are equal to themselves only.
ObjectTypes == {"Object", "Array", "Signal", "template", "function"}

\* JavaScript's abstract equality a == b on these values.  An object is
\* compared by identity; none is compared with a string or a number here.
LooseEq(a, b) ==
  IF a.t \in ObjectTypes \/ b.t \in ObjectTypes THEN a = b
  ELSE IF a.t = b.t THEN a.s = b.s /\ ~(a.t = "number" /\ a.s = "NaN")
  ELSE IF {a.t, b.t} = {"null", "undefined"} THEN TRUE
  ELSE IF {a.t, b.t} = {"number", "string"}
       THEN ToNumber(a) = ToNumber(b) /\ ToNumber(a) # "NaN"
  ELSE FALSE

\* value != null
NonNull(v) == ~LooseEq(v, JsNull)

(***************************************************************************)
(* Subscriber callbacks.  "a" and "b" only observe; "r" assigns the Signal *)
(* from inside its invocation (signal.value = ReassignTo), which makes     *)
(* notification re-entrant.                                                *)
(***************************************************************************)
Callbacks == {"a", "b", "r"}
ReassignTo == JsNum("1")

\* The number of subscribe calls made in one run.
MaxHandles == 3

NoOp == [op |-> "init", v |-> JsUndef, cb |-> "", h |-> 0]

\* The state a handler works on: the Signal's fields and the invocation log.
SigState(v, subs, log) == [value |-> v, subs |-> subs, log |-> log]

\* The mutant of NextSubscriber: notify walks the Set backwards.
NextSubscriberReversed(subs, i) == subs[Len(subs) + 1 - i]

\* for (const subscriber of this.#subscribers): the i-th one visited.
NextSubscriber(subs, i) == subs[i]

RECURSIVE SetValue(_, _)
RECURSIVE Notify(_, _)
RECURSIVE Invoke(_, _, _, _)

\* subscriber(this.#value): the call is logged, then the callback's body runs.
Invoke(st, cb, v, via) ==
  LET st1 == [st EXCEPT !.log = Append(@, [cb |-> cb, v |-> v, via |-> via])]
  IN IF cb = "r" THEN SetValue(st1, ReassignTo) ELSE st1

\* notify(): each subscriber is called with this.#value as it is at that call.
Notify(st, i) ==
  IF i > Len(st.subs) THEN st
  ELSE Notify(Invoke(st, NextSubscriber(st.subs, i), st.value, "notify"), i + 1)

\* set value(newValue)
SetValue(st, nv) ==
  IF LooseEq(nv, st.value) THEN st
  ELSE Notify([st EXCEPT !.value = nv], 1)

\* this.#subscribers.add(subscriber): a Set keeps one entry per callback.
SetAdd(subs, cb) == IF cb \in Range(subs) THEN subs ELSE Append(subs, cb)

\* The mutant of SetDelete: the handle empties the Set, as clear() does.
SetDeleteAll(subs, cb) == <<>>

\* this.#subscribers.delete(subscriber)
SetDelete(subs, cb) == SelectSeq(subs, LAMBDA x : x # cb)

\* The mutant of SubscribeGuard: only null is held back (!== null).
SubscribeGuardStrict(v) == v # JsNull

\* if (this.#value != null) subscriber(this.#value)
SubscribeGuard(v) == NonNull(v)

\* subscribe(subscriber)
SubscribeState(st, cb) ==
  LET st1 == IF SubscribeGuard(st.value)
             THEN Invoke(st, cb, st.value, "subscribe") ELSE st
  IN [st1 EXCEPT !.subs = SetAdd(@, cb)]

\* The components a specification does not exercise stay as constructed.
Undecoded == [kind |-> "none", attributeName |-> <<>>]
IdleSignal ==
  /\ value = JsUndef /\ subscribers = <<>> /\ handles = <<>>
  /\ delivered = <<>> /\ lastOp = NoOp
IdleDecoder == htmlStr = <<>> /\ decoded = Undecoded
IdleStream ==
  /\ strings = <<>> /\ values = <<>> /\ context = <<>>
  /\ stream = <<>> /\ markup = <<>> /\ phase = "idle"
IdleAttributes == parsed = <<>> /\ nodes = <<>> /\ nextId = 1
IdleNodes ==
  /\ given = <<>> /\ rootChildren = <<>> /\ results = <<>>
  /\ warned = <<>> /\ thrown = ""
IdleBindings ==
  elements = <<>> /\ signals = <<>> /\ domOps = <<>> /\ closures = 0

InitSignal ==
  /\ IdleDecoder /\ IdleStream /\ IdleAttributes /\ IdleNodes /\ IdleBindings
  /\ value \in SignalValues
  /\ subscribers = <<>>
  /\ handles = <<>>
  /\ delivered = <<>>
  /\ lastOp = NoOp

\* signal.value = nv
Assign(nv) ==
  LET st == SetValue(SigState(value, subscribers, <<>>), nv)
  IN /\ value' = st.value
     /\ subscribers' = st.subs
     /\ delivered' = st.log
     /\ lastOp' = [op |-> "set", v |-> nv, cb |-> "", h |-> 0]
     /\ UNCHANGED handles

\* const handle = signal.subscribe(cb)
Subscribe(cb) ==
  /\ Len(handles) < MaxHandles
  /\ LET st == SubscribeState(SigState(value, subscribers, <<>>), cb)
     IN /\ value' = st.value
        /\ subscribers' = st.subs
        /\ delivered' = st.log
  /\ handles' = Append(handles, [cb |-> cb, called |-> FALSE])
  /\ lastOp' = [op |-> "sub", v |-> JsUndef, cb |-> cb, h |-> Len(handles) + 1]

\* handle(): () => this.#subscribers.delete(subscriber)
Unsubscribe(h) ==
  /\ h \in DOMAIN handles
  /\ subscribers' = SetDelete(subscribers, handles[h].cb)
  /\ handles' = [handles EXCEPT ![h].called = TRUE]
  /\ delivered' = <<>>
  /\ lastOp' = [op |-> "unsub", v |-> JsUndef, cb |-> handles[h].cb, h |-> h]
  /\ UNCHANGED value

NextSignal ==
  \/ \E nv \in SignalValues : Assign(nv) /\ UNCHANGED <<decVars, strVars, attVars, nodVars, bndVars>>
  \/ \E cb \in Callbacks : Subscribe(cb) /\ UNCHANGED <<decVars, strVars, attVars, nodVars, bndVars>>
  \/ \E h \in 1..MaxHandles : Unsubscribe(h) /\ UNCHANGED <<decVars, strVars, attVars, nodVars, bndVars>>

SpecSignal == InitSignal /\ [][NextSignal]_vars


(***************************************************************************)
(* decodeAttribute.  A string is a sequence of one-character strings.      *)
(***************************************************************************)
Chars == {"<", ">", "=", " ", "a", "'", "\""}
IsSpace(c) == c = " "
IsQuote(c) == c \in {"'", "\""}
IsBracket(c) == c \in {"<", ">"}

\* The longest literal segment enumerated character by character.
MaxSegLen == 4

Last(s) == s[Len(s)]
Front(s) == SubSeq(s, 1, Len(s) - 1)

RECURSIVE TrimStart(_)
TrimStart(s) == IF s # <<>> /\ IsSpace(Head(s)) THEN TrimStart(Tail(s)) ELSE s

RECURSIVE TrimEnd(_)
TrimEnd(s) == IF s # <<>> /\ IsSpace(Last(s)) THEN TrimEnd(Front(s)) ELSE s

\* htmlStr.trim()
Trim(s) == TrimEnd(TrimStart(s))

\* .replace(/['"]$/, "")
StripTrailingQuote(s) == IF s # <<>> /\ IsQuote(Last(s)) THEN Front(s) ELSE s

\* s.split(sep) for a one-character separator class: the pieces between
\* separators, empty pieces included.
RECURSIVE SplitAt(_, _, _, _)
SplitAt(s, seps, done, cur) ==
  IF s = <<>> THEN Append(done, cur)
  ELSE IF Head(s) \in seps THEN SplitAt(Tail(s), seps, Append(done, cur), <<>>)
  ELSE SplitAt(Tail(s), seps, done, Append(cur, Head(s)))

\* .split(/\s+/): a run of separators splits once, so no piece between two
\* separators of the same run appears.
SplitRuns(s) ==
  LET p == SplitAt(s, {c \in Chars : IsSpace(c)}, <<>>, <<>>)
      keep == {i \in DOMAIN p : p[i] # <<>> \/ i = 1 \/ i = Len(p)}
      RECURSIVE Pick(_)
      Pick(i) == IF i > Len(p) THEN <<>>
                 ELSE IF i \in keep THEN <<p[i]>> \o Pick(i + 1) ELSE Pick(i + 1)
  IN Pick(1)

\* htmlStr.trim().replace(/['"]$/, "").split(/\s+/).pop()
NormalizedCharacterTokens(s) == Last(SplitRuns(StripTrailingQuote(Trim(s))))

\* htmlStr.trim().split(/[^<>]/).filter((token) => token)
BracketCycle(s) ==
  SelectSeq(SplitAt(Trim(s), {c \in Chars : ~IsBracket(c)}, <<>>, <<>>),
            LAMBDA t : t # <<>>)

\* decodeAttribute(htmlStr): bracketCycle.at(-1) is undefined for no bracket.
DecodeAttribute(s) ==
  LET tail == NormalizedCharacterTokens(s)
      cycle == BracketCycle(s)
  IN IF tail # <<>> /\ Last(tail) = "="
     THEN [kind |-> "attributeValueAssignment", attributeName |-> Front(tail)]
     ELSE IF cycle # <<>> /\ Last(cycle) = <<"<">>
     THEN [kind |-> "attributeDomain", attributeName |-> <<>>]
     ELSE [kind |-> "elementDomain", attributeName |-> <<>>]

RECURSIVE SeqsUpTo(_, _)
SeqsUpTo(S, n) ==
  IF n = 0 THEN {<<>>}
  ELSE LET shorter == SeqsUpTo(S, n - 1)
       IN shorter \cup {Append(t, c) : t \in shorter, c \in S}

\* The segments of the documentation: 'class="', '<div ', '<div>' and a
\* second tag opened after a closed one, '<a><b '.
DocSegments ==
  { <<"a", "a", "=", "\"">>, <<"<", "a", "a", "a", " ">>,
    <<"<", "a", "a", "a", ">">>, <<"<", "a", ">", "<", "a", " ">> }

InitDecoder ==
  /\ IdleSignal /\ IdleStream /\ IdleAttributes /\ IdleNodes /\ IdleBindings
  /\ htmlStr \in SeqsUpTo(Chars, MaxSegLen) \cup DocSegments
  /\ decoded = Undecoded

\* new Record(id, content, htmlStr): Object.assign(this, decodeAttribute(..))
Decode ==
  /\ decoded = Undecoded
  /\ decoded' = DecodeAttribute(htmlStr)
  /\ UNCHANGED <<htmlStr, sigVars, strVars, attVars, nodVars, bndVars>>

NextDecoder == Decode

SpecDecoder == InitDecoder /\ [][NextDecoder]_vars

(***************************************************************************)
(* Claims about decodeAttribute.                                           *)
(***************************************************************************)
\* The last "<" or ">" of the segment, "" when it has none.
RECURSIVE ClaimLastBracket(_)
ClaimLastBracket(s) ==
  IF s = <<>> THEN ""
  ELSE IF IsBracket(Last(s)) THEN Last(s) ELSE ClaimLastBracket(Front(s))

\* The last whitespace-separated token ends with "=": the trimmed segment,
\* minus one trailing quote, ends with "=".
ClaimTailEndsWithEquals(s) ==
  LET t == StripTrailingQuote(Trim(s)) IN t # <<>> /\ Last(t) = "="

ClaimPlacement(s) ==
  IF ClaimTailEndsWithEquals(s) THEN "attributeValueAssignment"
  ELSE IF ClaimLastBracket(s) = "<" THEN "attributeDomain"
  ELSE "elementDomain"

\* C6: every segment gets exactly one placement: attribute-value-assignment
\* iff its last token ends with "="; otherwise attribute-domain iff the last
\* "<" or ">" in it is "<"; otherwise element-domain.
C6_Claim_PlacementByLastBracket ==
  decoded # Undecoded =>
    /\ decoded.kind \in
         {"attributeValueAssignment", "attributeDomain", "elementDomain"}
    /\ decoded.kind = ClaimPlacement(htmlStr)


(***************************************************************************)
(* The record database (a JS Map, kept in insertion order), createStream   *)
(* and createIntermediateHtml.                                             *)
(***************************************************************************)
MapHas(db, id) == \E i \in DOMAIN db : db[i].id = id
MapGet(db, id) == db[CHOOSE i \in DOMAIN db : db[i].id = id]
MapKeys(db) == {db[i].id : i \in DOMAIN db}

\* Map.set: an existing key keeps its place and takes the new value.
MapSet(db, rec) ==
  IF MapHas(db, rec.id)
  THEN [i \in DOMAIN db |-> IF db[i].id = rec.id THEN rec ELSE db[i]]
  ELSE Append(db, rec)

\* A Record with its fields: Object.assign(this, intelligence) sets the
\* placement and the attribute name, when an intelligence is given.
MakeRecord(id, content, kind, attributeName) ==
  [id |-> id, content |-> content, kind |-> kind,
   attributeName |-> attributeName, isTemplateVariable |-> TRUE,
   isTemplateChunk |-> FALSE, unsubscribe |-> <<>>]

\* new Record(id, content, intelligence) for a string intelligence.
NewRecord(id, content, intelligence) ==
  LET d == DecodeAttribute(intelligence)
  IN MakeRecord(id, content, d.kind, d.attributeName)

\* "::" + index
RecordId(index) == <<":", ":", ToString(index)>>

\* The number of literal segments of a template.
MaxStrings == 3

\* Literal segments ending inside an open tag, at an attribute value, after
\* a closed tag and after a closing quote.
SampleSegments ==
  { <<"<", "a", " ">>, <<"<", "a", " ", "a", "=", "\"">>,
    <<"<", "a", ">">>, <<"\"", ">">> }

StreamValues == {JsUndef, JsNull, JsNum("1"), JsStr("a")}

\* values[index], index counted from 0: undefined past the end.
ValueAt(vals, index) == IF index < Len(vals) THEN vals[index + 1] ELSE JsUndef

\* The mutant of IsSkipped: null is skipped as well (content == undefined).
IsSkippedLoose(content) == content \in {JsUndef, JsNull}

\* if (content === undefined) continue
IsSkipped(content) == content = JsUndef

Chunk(string) ==
  [isTemplateChunk |-> TRUE, isReference |-> FALSE, content |-> string, id |-> <<>>]
Reference(id) ==
  [isTemplateChunk |-> FALSE, isReference |-> TRUE, content |-> <<>>, id |-> id]

\* createStream(context, strings, values), from index on.
RECURSIVE CreateStreamFrom(_, _, _, _, _)
CreateStreamFrom(ctx, strm, strs, vals, index) ==
  IF index >= Len(strs) THEN [context |-> ctx, stream |-> strm]
  ELSE LET string == strs[index + 1]
           content == ValueAt(vals, index)
           strm1 == Append(strm, Chunk(string))
       IN IF IsSkipped(content)
          THEN CreateStreamFrom(ctx, strm1, strs, vals, index + 1)
          ELSE CreateStreamFrom(
                 MapSet(ctx, NewRecord(RecordId(index), content, string)),
                 Append(strm1, Reference(RecordId(index))), strs, vals, index + 1)

\* What createIntermediateHtml pushes for one stream entry.
Emitted(entry, ctx) ==
  IF ~entry.isReference THEN entry.content
  ELSE LET fragment == MapGet(ctx, entry.id)
       IN IF fragment.isTemplateChunk THEN fragment.content
          ELSE IF fragment.isTemplateVariable
                  /\ fragment.kind = "attributeValueAssignment"
          THEN entry.id
          ELSE IF fragment.isTemplateVariable /\ fragment.kind = "attributeDomain"
          THEN entry.id \o <<"=", "\"", "\"">>
          ELSE IF fragment.isTemplateVariable /\ fragment.kind = "elementDomain"
          THEN <<"<", "!", "-", "-">> \o entry.id \o <<"-", "-", ">">>
          ELSE <<>>

\* createIntermediateHtml(stream, context): result.join("")
RECURSIVE CreateIntermediateHtml(_, _)
CreateIntermediateHtml(strm, ctx) ==
  IF strm = <<>> THEN <<>>
  ELSE Emitted(Head(strm), ctx) \o CreateIntermediateHtml(Tail(strm), ctx)

RECURSIVE TuplesOf(_, _)
TuplesOf(S, n) ==
  IF n = 0 THEN {<<>>} ELSE {Append(t, c) : t \in TuplesOf(S, n - 1), c \in S}

\* A tagged template hands over n + 1 literal segments and n values.
InitStream ==
  /\ IdleSignal /\ IdleDecoder /\ IdleAttributes /\ IdleNodes /\ IdleBindings
  /\ \E n \in 1..MaxStrings :
       /\ strings \in TuplesOf(SampleSegments, n)
       /\ values \in TuplesOf(StreamValues, n - 1)
  /\ context = <<>> /\ stream = <<>> /\ markup = <<>>
  /\ phase = "start"

\* xml: const context = new Map(); const stream = createStream(...)
CreateStream ==
  /\ phase = "start"
  /\ LET r == CreateStreamFrom(<<>>, <<>>, strings, values, 0)
     IN context' = r.context /\ stream' = r.stream
  /\ phase' = "stream"
  /\ UNCHANGED <<strings, values, markup, sigVars, decVars, attVars, nodVars, bndVars>>

\* xml: const xml = createIntermediateHtml(stream, context)
CreateHtml ==
  /\ phase = "stream"
  /\ markup' = CreateIntermediateHtml(stream, context)
  /\ phase' = "html"
  /\ UNCHANGED <<strings, values, context, stream, sigVars, decVars, attVars, nodVars, bndVars>>

NextStream == CreateStream \/ CreateHtml

SpecStream == InitStream /\ [][NextStream]_vars

(***************************************************************************)
(* Claims about the marker stream.                                         *)
(***************************************************************************)
\* The indices whose interpolated value is not undefined (null is defined).
ClaimDefinedIndices ==
  {i \in 0..(Len(values) - 1) : values[i + 1] # JsUndef}

\* The markers in a markup string: the places where "::" starts (the sample
\* segments hold no colon).
MarkerPlaces(m) == {i \in 1..(Len(m) - 1) : m[i] = ":" /\ m[i + 1] = ":"}

\* C5: the markup holds as many markers as there are values that are not
\* undefined; the database holds exactly one Record per such index i, under
\* "::" + i, with that value as content; an undefined value gives neither.
C5_OneMarkerAndRecordPerDefinedValue ==
  /\ phase \in {"stream", "html"} =>
       /\ MapKeys(context) = {RecordId(i) : i \in ClaimDefinedIndices}
       /\ Len(context) = Cardinality(ClaimDefinedIndices)
       /\ \A i \in ClaimDefinedIndices :
            MapGet(context, RecordId(i)).content = values[i + 1]
  /\ phase = "html" =>
       /\ Cardinality(MarkerPlaces(markup)) = Cardinality(ClaimDefinedIndices)
       /\ \A i \in ClaimDefinedIndices :
            \E p \in MarkerPlaces(markup) : markup[p + 2] = ToString(i)

\* C5 witness: a template with one undefined value and one null value was
\* rendered, giving one marker.
C5_Witness ==
  /\ phase = "html" /\ Len(values) = 2
  /\ values[1] = JsUndef /\ values[2] = JsNull
  /\ Cardinality(MarkerPlaces(markup)) = 1


(***************************************************************************)
(* interpolateAttributes: the plain-attribute upgrade and the expansion of *)
(* spread markers.  node.attributes is a JS array; delete leaves a hole.   *)
(***************************************************************************)
JsObject(fields) == [t |-> "Object", fields |-> fields]
Field(name, v) == [name |-> name, value |-> v]
Attr(name, v) == [hole |-> FALSE, name |-> name, value |-> v]
Hole == [hole |-> TRUE, name |-> <<>>, value |-> JsUndef]

\* new Signal(value): the id comes from generateId(), "id" + id++.
NewSignal(n, v) == [t |-> "Signal", id |-> <<"i", "d", ToString(n)>>, value |-> v]

\* name.startsWith("::")
StartsWithMarker(name) == Len(name) >= 2 /\ name[1] = ":" /\ name[2] = ":"

\* value.includes("%"), isNaN(value) and parseFloat(value) on the attribute
\* literals used here: "5", "abc", "50%" and "".
IncludesPercent(str) == str \in {"50%"}
IsNaNString(str) == str \notin {"5", ""}
ParseFloat(str) ==
  IF str = "5" THEN JsNum("5") ELSE IF str = "50%" THEN JsNum("50") ELSE JsNaN

\* parseElementAttributeValue(value)
ParseElementAttributeValue(v) ==
  IF v.t = "string"
  THEN IF IncludesPercent(v.s)
       THEN [t |-> "Object", value |-> ParseFloat(v.s), unit |-> "%"]
       ELSE IF ~IsNaNString(v.s) THEN ParseFloat(v.s) ELSE v
  ELSE v

\* record.isObjectType
IsObjectType(rec) == rec.content.t = "Object"

\* The loop state of one walk callback.
LoopState(attrs, db, newAttributes, id) ==
  [attrs |-> attrs, db |-> db, newAttributes |-> newAttributes, id |-> id]

\* after: index + localIndex++ (index counted from 0)
AfterIndex(index, localIndex) == index + localIndex

\* The for loop over Object.entries(packet.content), from field k on.
RECURSIVE ExpandFields(_, _, _, _, _)
ExpandFields(st, markerName, index, fields, k) ==
  IF k > Len(fields) THEN st
  ELSE LET attributeName == fields[k].name
           content == fields[k].value
           signal == NewSignal(st.id, content)
           recordId == markerName \o <<"-">> \o attributeName
           attributePayload ==
             MakeRecord(recordId, content, "attributeValueAssignment", attributeName)
       IN ExpandFields(
            [st EXCEPT !.db = MapSet(@, attributePayload),
                       !.newAttributes = Append(@,
                          [after |-> AfterIndex(index, k),
                           name |-> attributeName, value |-> signal]),
                       !.id = @ + 1],
            markerName, index, fields, k + 1)

\* The body of the loop over node.attributes.entries() for one index
\* (counted from 0).
VisitAttribute(st, index) ==
  LET attribute == st.attrs[index + 1]
  IN IF attribute.hole THEN st
     ELSE IF ~StartsWithMarker(attribute.name)
     THEN LET signal == NewSignal(st.id, ParseElementAttributeValue(attribute.value))
          IN [st EXCEPT !.attrs[index + 1].value = signal,
                        !.db = MapSet(@, MakeRecord(signal.id, signal, "none", <<>>)),
                        !.id = @ + 1]
     ELSE LET expanded ==
                IF MapHas(st.db, attribute.name)
                   /\ IsObjectType(MapGet(st.db, attribute.name))
                THEN ExpandFields(st, attribute.name, index,
                                  MapGet(st.db, attribute.name).content.fields, 1)
                ELSE st
          IN [expanded EXCEPT !.attrs[index + 1] = Hole]

RECURSIVE VisitAttributes(_, _)
VisitAttributes(st, index) ==
  IF index >= Len(st.attrs) THEN st
  ELSE VisitAttributes(VisitAttribute(st, index), index + 1)

\* Array.splice(after, 0, item): a start past the end is the end.
Splice(attrs, after, item) ==
  LET at == IF after > Len(attrs) THEN Len(attrs) ELSE after
  IN SubSeq(attrs, 1, at) \o <<item>> \o SubSeq(attrs, at + 1, Len(attrs))

\* for (const { after, name, value } of newAttributes) splice(...)
RECURSIVE ApplyNewAttributes(_, _)
ApplyNewAttributes(attrs, newAttributes) ==
  IF newAttributes = <<>> THEN attrs
  ELSE LET n == Head(newAttributes)
       IN ApplyNewAttributes(Splice(attrs, n.after, Attr(n.name, n.value)),
                             Tail(newAttributes))

\* The walk callback on one node: the new attribute list, database and id.
InterpolateNode(attrs, db, id) ==
  LET st == VisitAttributes(LoopState(attrs, db, <<>>, id), 0)
  IN [attrs |-> ApplyNewAttributes(st.attrs, st.newAttributes),
      db |-> st.db, id |-> st.id]

\* root.walk((node) => ...): the nodes from n on, in document order.
RECURSIVE WalkAttributes(_, _, _, _)
WalkAttributes(ns, db, id, n) ==
  IF n > Len(ns) THEN [nodes |-> ns, db |-> db, id |-> id]
  ELSE LET r == InterpolateNode(ns[n], db, id)
       IN WalkAttributes([ns EXCEPT ![n] = r.attrs], r.db, r.id, n + 1)

\* The attributes of the whole tree.
MaxAttrs == 3

ColorWidth == JsObject(<<Field(<<"c">>, JsStr("red")), Field(<<"w">>, JsNum("200"))>>)
OnlyX == JsObject(<<Field(<<"x">>, JsNum("1"))>>)

\* What a value interpolated in an open tag may be: a map, or not a map.
SpreadContents == {ColorWidth, OnlyX, JsStr("checked")}

\* Written attributes: a number, a word, a percentage and an empty value.
PlainAttrs ==
  {Attr(<<"g">>, JsStr("5")), Attr(<<"t">>, JsStr("abc")),
   Attr(<<"p">>, JsStr("50%")), Attr(<<"e">>, JsStr(""))}
MarkerAttr(i) == Attr(RecordId(i), JsStr(""))
MarkerIndices == {0, 1}

IsMarkerAttr(a) == ~a.hole /\ StartsWithMarker(a.name)

\* The attribute lists of a tree: each marker at most once.
AttrLists ==
  {l \in SeqsUpTo(PlainAttrs \cup {MarkerAttr(i) : i \in MarkerIndices}, MaxAttrs) :
     \A i, j \in DOMAIN l : (i # j /\ IsMarkerAttr(l[i])) => l[i] # l[j]}

\* The database createStream leaves for the markers of a tree: a Record per
\* value that is not undefined, placed by the literal segment before it.
RECURSIVE StreamDatabase(_, _, _)
StreamDatabase(contents, segment, i) ==
  IF i > Len(contents) THEN <<>>
  ELSE (IF contents[i] = JsUndef THEN <<>>
        ELSE <<NewRecord(RecordId(i - 1), contents[i], segment)>>)
       \o StreamDatabase(contents, segment, i + 1)

OpenTagSegment == <<"<", "a", " ">>
ClosedTagSegment == <<"<", "a", ">">>

InitAttributes ==
  /\ IdleSignal /\ IdleDecoder /\ IdleNodes /\ IdleBindings
  /\ strings = <<>> /\ values = <<>> /\ stream = <<>> /\ markup = <<>>
  /\ \E l \in AttrLists : \E k \in 0..Len(l) :
       /\ parsed = <<SubSeq(l, 1, k), SubSeq(l, k + 1, Len(l))>>
       /\ \E c \in [MarkerIndices -> SpreadContents] :
            context = StreamDatabase(
              [i \in 1..Cardinality(MarkerIndices) |->
                 IF MarkerAttr(i - 1) \in Range(l) THEN c[i - 1] ELSE JsUndef],
              OpenTagSegment, 1)
  /\ nodes = parsed
  /\ nextId = 1
  /\ phase = "parsed"

\* xml: interpolateAttributes(root, context)
InterpolateAttributes ==
  /\ phase = "parsed"
  /\ LET r == WalkAttributes(nodes, context, nextId, 1)
     IN nodes' = r.nodes /\ context' = r.db /\ nextId' = r.id
  /\ phase' = "attributes"
  /\ UNCHANGED <<parsed, strings, values, stream, markup, sigVars, decVars, nodVars,
               bndVars>>

NextAttributes == InterpolateAttributes

SpecAttributes == InitAttributes /\ [][NextAttributes]_vars

(***************************************************************************)
(* Claims about interpolateAttributes.                                     *)
(***************************************************************************)
\* The attribute list without its holes.
Compact(attrs) == SelectSeq(attrs, LAMBDA a : ~a.hole)

\* What the claim expects of one parsed attribute: a plain attribute stays,
\* a spread marker whose Record holds a map gives one attribute per field,
\* in field order, and any other spread marker gives nothing.
ClaimExpansion(a, db) ==
  IF ~StartsWithMarker(a.name) THEN <<[name |-> a.name, of |-> <<>>, v |-> a.value]>>
  ELSE IF MapHas(db, a.name) /\ MapGet(db, a.name).content.t = "Object"
  THEN LET f == MapGet(db, a.name).content.fields
       IN [k \in DOMAIN f |-> [name |-> f[k].name, of |-> a.name, v |-> f[k].value]]
  ELSE <<>>

RECURSIVE ClaimExpected(_, _)
ClaimExpected(attrs, db) ==
  IF attrs = <<>> THEN <<>>
  ELSE ClaimExpansion(Head(attrs), db) \o ClaimExpected(Tail(attrs), db)

\* C7: after attribute interpolation every spread marker whose Record holds
\* a map is replaced in place: no entry is left for the marker, and one
\* attribute per field, named by the field and bound to its own fresh
\* Signal holding the field's value, stands where the marker stood, in
\* field order, before the attributes that followed the marker; the
\* database holds a Record "<markerId>-<fieldName>" for each.
C7_Claim_SpreadExpandsInPlace ==
  phase = "attributes" =>
    \A n \in DOMAIN nodes :
      LET now == Compact(nodes[n])
          exp == ClaimExpected(parsed[n], context)
      IN /\ Len(now) = Len(exp)
         /\ \A i \in DOMAIN exp :
              /\ now[i].name = exp[i].name
              /\ now[i].value.t = "Signal"
              /\ exp[i].of # <<>> =>
                   /\ now[i].value.value = exp[i].v
                   /\ MapHas(context, exp[i].of \o <<"-">> \o exp[i].name)
         /\ \A i, j \in DOMAIN now : i # j => now[i].value.id # now[j].value.id

\* The value the upgrade is to hold for a written literal: a numeric string
\* as a number, a numeric string followed by "%" as a value with its unit,
\* and any other string as it is.
ClaimParsed(v) ==
  IF v.s = "5" THEN JsNum("5")
  ELSE IF v.s = "50%" THEN [t |-> "Object", value |-> JsNum("50"), unit |-> "%"]
  ELSE v

\* The attributes a node was parsed with whose name is no record id.
ClaimPlain(attrs) == SelectSeq(attrs, LAMBDA a : ~IsMarkerAttr(a))

\* The attributes of a node whose Signal has a Record under its own id.
ClaimUpgraded(attrs, db) ==
  SelectSeq(Compact(attrs),
            LAMBDA a : a.value.t = "Signal" /\ MapHas(db, a.value.id))

\* C13: after attribute interpolation every attribute whose name is not a
\* record id holds a Signal of its own whose value is the parsed literal,
\* the database has a Record under that Signal's id whose content is that
\* Signal, and these attributes keep their names and their order.
C13_Claim_PlainAttributesUpgraded ==
  phase = "attributes" =>
    /\ \A n \in DOMAIN nodes :
         LET before == ClaimPlain(parsed[n])
             now == ClaimUpgraded(nodes[n], context)
         IN /\ Len(now) = Len(before)
            /\ \A i \in DOMAIN before :
                 /\ now[i].name = before[i].name
                 /\ now[i].value.value = ClaimParsed(before[i].value)
                 /\ MapGet(context, now[i].value.id).content = now[i].value
    /\ \A n, m \in DOMAIN nodes :
         \A i \in DOMAIN nodes[n], j \in DOMAIN nodes[m] :
           (<<n, i>> # <<m, j>> /\ ~nodes[n][i].hole /\ ~nodes[m][j].hole)
             => nodes[n][i].value.id # nodes[m][j].value.id


(***************************************************************************)
(* interpolateNodes: content markers are replaced by the children of the   *)
(* nested template results, whose databases are merged into the parent's.  *)
(* The tree is the list of root's children; the tree operations findType,  *)
(* after and remove belong to XMLParser.                                    *)
(***************************************************************************)
Element(name) == [comment |-> FALSE, content |-> <<>>, name |-> name]
Comment(content) == [comment |-> TRUE, content |-> content, name |-> <<>>]

\* A nested template result as a Record's content: the object is named.
TemplateResult(ref) == [t |-> "template", ref |-> ref]
TemplateName(i) == <<"T", ToString(i)>>

\* root.findType(1, node => node.content.startsWith('::'))
FindMarkers(children) ==
  SelectSeq(children, LAMBDA n : n.comment /\ StartsWithMarker(n.content))

\* commentNode.after(...nodesToImport)
After(children, node, nodesToImport) ==
  LET at == CHOOSE i \in DOMAIN children : children[i] = node
  IN SubSeq(children, 1, at) \o nodesToImport
       \o SubSeq(children, at + 1, Len(children))

\* node.remove()
Remove(children, node) == SelectSeq(children, LAMBDA n : n # node)

\* remoteContext.forEach((value, key) => database.set(key, value))
RECURSIVE MergeInto(_, _)
MergeInto(db, remote) ==
  IF remote = <<>> THEN db
  ELSE MergeInto(MapSet(db, Head(remote)), Tail(remote))

\* The state of one interpolateNodes call.
NodesState(children, db, res, warn, err) ==
  [children |-> children, db |-> db, results |-> res, warned |-> warn,
   thrown |-> err]

\* const {root, unsubscribe, context: remoteContext} = record.content
\* gives an undefined remoteContext for anything but a template result, and
\* remoteContext.forEach then throws a TypeError.
HasContext(content) == content.t = "template"

\* The body of the loop over commentNodes for one marker.
ImportMarker(st, commentNode) ==
  IF ~MapHas(st.db, commentNode.content)
  THEN [st EXCEPT !.warned = Append(@, commentNode.content)]
  ELSE LET record == MapGet(st.db, commentNode.content)
       IN IF ~HasContext(record.content)
          THEN [st EXCEPT !.thrown = "TypeError"]
          ELSE LET ref == record.content.ref
                   remote == st.results[ref]
                   merged == [st EXCEPT
                                !.db = MergeInto(@, remote.context),
                                !.results[ref].context = <<>>]
               IN IF Len(remote.children) > 0
                  THEN [merged EXCEPT
                          !.children = After(@, commentNode, remote.children)]
                  ELSE [merged EXCEPT
                          !.warned = Append(@, commentNode.content)]

RECURSIVE ImportMarkers(_, _)
ImportMarkers(st, commentNodes) ==
  IF commentNodes = <<>> \/ st.thrown # "" THEN st
  ELSE ImportMarkers(ImportMarker(st, Head(commentNodes)), Tail(commentNodes))

RECURSIVE RemoveAll(_, _)
RemoveAll(children, nodesToRemove) ==
  IF nodesToRemove = <<>> THEN children
  ELSE RemoveAll(Remove(children, Head(nodesToRemove)), Tail(nodesToRemove))

\* interpolateNodes(root, database)
InterpolateNodesState(st) ==
  LET commentNodes == FindMarkers(st.children)
      after == ImportMarkers(st, commentNodes)
  IN IF after.thrown # "" THEN after
     ELSE [after EXCEPT !.children = RemoveAll(@, commentNodes)]

\* The number of children of the parent's root.
MaxChildren == 3

\* The content markers of a parent template, by their positional index.
ContentIndices == {0, 1}

\* A comment written in the markup whose text is a record id no value has.
AbsentMarker == Comment(<<":", ":", "7">>)

\* The children a parent's root may have: elements, content markers and at
\* most one written marker; the content markers in the order of their
\* indices, at least one marker.
ParentChildren ==
  {l \in SeqsUpTo({Element(<<"p">>), AbsentMarker}
                    \cup {Comment(RecordId(i)) : i \in ContentIndices},
                  MaxChildren) :
     /\ \E i \in DOMAIN l : l[i].comment
     /\ \A i, j \in DOMAIN l :
          (i < j /\ l[i].comment /\ l[j].comment) =>
             /\ ~(l[i] = AbsentMarker /\ l[j] = AbsentMarker)
             /\ (l[i] # AbsentMarker /\ l[j] # AbsentMarker) =>
                  \E a, b \in ContentIndices :
                    a < b /\ l[i].content = RecordId(a)
                          /\ l[j].content = RecordId(b)}

\* What a nested template's database holds: Records for its own
\* interpolated values, "::0", "::1", and for its upgraded attributes.
NestedContexts(i) ==
  LET own0 == MakeRecord(RecordId(0), JsNum(ToString(i)), "attributeValueAssignment", <<"w">>)
      own1 == MakeRecord(RecordId(1), JsStr(ToString(i)), "attributeValueAssignment", <<"h">>)
      up == MakeRecord(NewSignal(i + 1, JsStr("abc")).id,
                       NewSignal(i + 1, JsStr("abc")), "none", <<>>)
  IN {<<>>, <<up>>, <<own0, up>>, <<own0, own1>>}

\* The top-level nodes of a nested result; the empty template has none.
NestedChildren(i) ==
  {<<>>, <<Element(<<"x", ToString(i)>>)>>,
   <<Element(<<"x", ToString(i)>>), Element(<<"y", ToString(i)>>)>>}

InitNodes ==
  /\ IdleSignal /\ IdleDecoder /\ IdleAttributes /\ IdleBindings
  /\ strings = <<>> /\ values = <<>> /\ stream = <<>> /\ markup = <<>>
  /\ rootChildren \in ParentChildren
  /\ results \in
       { r \in [{TemplateName(i) : i \in ContentIndices} ->
                  [children : UNION {NestedChildren(i) : i \in ContentIndices},
                   context : UNION {NestedContexts(i) : i \in ContentIndices}]] :
           \A i \in ContentIndices :
             /\ r[TemplateName(i)].children \in NestedChildren(i)
             /\ r[TemplateName(i)].context \in NestedContexts(i)
             /\ r[TemplateName(i)].children = <<>> =>
                  r[TemplateName(i)].context = <<>>
             /\ Comment(RecordId(i)) \notin Range(rootChildren) =>
                  r[TemplateName(i)] = [children |-> <<Element(<<"x", ToString(i)>>)>>,
                                        context |-> <<>>] }
  /\ context = StreamDatabase(
       [i \in 1..Cardinality(ContentIndices) |->
          IF Comment(RecordId(i - 1)) \in Range(rootChildren)
          THEN TemplateResult(TemplateName(i - 1)) ELSE JsUndef],
       ClosedTagSegment, 1)
  /\ given = [children |-> rootChildren, context |-> context, results |-> results]
  /\ warned = <<>> /\ thrown = ""
  /\ phase = "attributes"

\* xml: interpolateNodes(root, context)
InterpolateNodes ==
  /\ phase = "attributes"
  /\ LET st == InterpolateNodesState(
                 NodesState(rootChildren, context, results, warned, thrown))
     IN /\ rootChildren' = st.children /\ context' = st.db
        /\ results' = st.results /\ warned' = st.warned /\ thrown' = st.thrown
  /\ phase' = "nodes"
  /\ UNCHANGED <<given, strings, values, stream, markup, sigVars, decVars, attVars,
               bndVars>>

NextNodes == InterpolateNodes

SpecNodes == InitNodes /\ [][NextNodes]_vars

(***************************************************************************)
(* Claims about interpolateNodes.                                          *)
(***************************************************************************)
\* The parent's children with each marker replaced by the children of the
\* nested result its Record holds.
RECURSIVE ClaimImported(_, _, _)
ClaimImported(children, db, res) ==
  IF children = <<>> THEN <<>>
  ELSE LET n == Head(children)
       IN (IF ~n.comment THEN <<n>>
           ELSE IF MapHas(db, n.content)
           THEN res[MapGet(db, n.content).content.ref].children
           ELSE <<>>) \o ClaimImported(Tail(children), db, res)

\* The nested results the parent's markers hold.
ClaimNested ==
  {MapGet(given.context, given.children[i].content).content.ref :
     i \in {j \in DOMAIN given.children :
              /\ given.children[j].comment
              /\ MapHas(given.context, given.children[j].content)}}

\* C9: after node interpolation each marker is replaced by exactly the
\* nested root's children, in order, at the marker's position; every marker
\* node is gone; every entry of each nested database is in the parent
\* database; each nested database is empty.
C9_Claim_MarkersReplacedAndDatabasesMerged ==
  phase = "nodes" =>
    /\ thrown = ""
    /\ rootChildren = ClaimImported(given.children, given.context, given.results)
    /\ \A i \in DOMAIN rootChildren : ~rootChildren[i].comment
    /\ \A ref \in ClaimNested :
         /\ \A k \in DOMAIN given.results[ref].context :
              LET rec == given.results[ref].context[k]
              IN MapHas(context, rec.id) /\ MapGet(context, rec.id) = rec
         /\ results[ref].context = <<>>


\* A marker that yields no import node: its Record is absent, or the nested
\* result its Record holds has no children.
ClaimYieldsNothing(marker) ==
  \/ ~MapHas(given.context, marker.content)
  \/ given.results[MapGet(given.context, marker.content).content.ref].children = <<>>

\* C12: a content marker whose Record is absent, or whose nested result has
\* no children, raises no error: a diagnostic names it, no node is inserted
\* for it, the marker node is removed, and the other markers are replaced by
\* their nested children.
C12_Claim_EmptyImportIsNotFatal ==
  phase = "nodes" =>
    \A i \in DOMAIN given.children :
      (given.children[i].comment /\ ClaimYieldsNothing(given.children[i])) =>
        /\ thrown = ""
        /\ given.children[i].content \in Range(warned)
        /\ given.children[i] \notin Range(rootChildren)
        /\ rootChildren =
             ClaimImported(given.children, given.context, given.results)


\* C15: merging the nested databases never replaces or loses a Record the
\* parent database held: every Record of the parent is there afterwards
\* under its id, as it was, also when a nested database has the same id.
C15_Claim_MergeKeepsParentRecords ==
  phase = "nodes" =>
    \A k \in DOMAIN given.context :
      /\ MapHas(context, given.context[k].id)
      /\ MapGet(context, given.context[k].id) = given.context[k]


(***************************************************************************)
(* interpolateAttributes2: spread and direct markers are collected per     *)
(* node and then bound by content type and attribute role.  A node's live  *)
(* surfaces (setAttribute, classList, style, properties) are the DOM's.    *)
(***************************************************************************)
ClassName == <<"c", "l", "a", "s", "s">>
StyleName == <<"s", "t", "y", "l", "e">>

\* A Signal as a value: the object is named by its id; its value and
\* subscribers are in the store.
SignalRef(n) == [t |-> "Signal", id |-> <<"i", "d", ToString(n)>>]
JsArray(items, ref) == [t |-> "Array", items |-> items, ref |-> ref]

\* A tree node: its attribute array and its live surfaces.
NodeOf(attrs) ==
  [attributes |-> attrs, applied |-> {}, classList |-> {}, currentState |-> {},
   style |-> {}, props |-> {}]

\* A keyed surface is a set of <<key, value>> pairs, one per key.
SetKey(m, k, v) == {q \in m : q[1] # k} \cup {<<k, v>>}
DeleteKey(m, k) == {q \in m : q[1] # k}

\* String(value) on a string, a number, null or undefined; any other
\* object prints as "[object Object]" (arrays and Signals are not
\* stringified by the bindings exercised here).
StringOf(v) ==
  IF v.t \in {"string", "number", "null", "undefined"} THEN v.s
  ELSE "[object Object]"

\* The flags a Record carries.
IsSignalType(rec) == rec.content.t = "Signal"
IsArrayType(rec) == rec.content.t = "Array"
IsFunctionType(rec) == rec.content.t = "function"
IsStringType(rec) == rec.content.t = "string"
IsNumberType(rec) == rec.content.t = "number"
IsStyleAttribute(rec) ==
  rec.kind = "attributeValueAssignment" /\ rec.attributeName = StyleName
IsClassAttribute(rec) ==
  rec.kind = "attributeValueAssignment" /\ rec.attributeName = ClassName

\* item && typeof item === 'object' && item.subscribe
IsSubscribable(v) == v.t = "Signal"

\* classes(value), the class-token normalizer: the tokens of a list.
Classes(v) == IF v.t = "Array" THEN {v.items[i] : i \in DOMAIN v.items} ELSE {}

\* The mutant of ToRemove: every applied token is removed and the expected
\* ones are added again.
ToRemoveAll(currentState, expectedState) == currentState

\* currentState.difference(expectedState)
ToRemove(currentState, expectedState) ==
  {x \in currentState : x \notin expectedState}

\* expectedState.difference(currentState)
ToAdd(currentState, expectedState) ==
  {x \in expectedState : x \notin currentState}

\* The state an interpolateAttributes2 call or a Signal assignment works on.
BindState(els, sigs, db, n, err, log) ==
  [elements |-> els, signals |-> sigs, db |-> db, closures |-> n,
   thrown |-> err, log |-> log]

\* node.setAttribute(name, value) and node.removeAttribute(name)
SetAttribute(st, n, name, str) ==
  [st EXCEPT !.elements[n].applied = SetKey(@, name, str)]
RemoveAttribute(st, n, name) ==
  [st EXCEPT !.elements[n].applied = DeleteKey(@, name)]

\* node.style[cssProperty] = cssValue
SetStyle(st, n, cssProperty, cssValue) ==
  [st EXCEPT !.elements[n].style = SetKey(@, cssProperty, cssValue)]

\* record.unsubscribe.push(handle)
PushUnsubscribe(st, recordId, handle) ==
  [st EXCEPT !.db = MapSet(@, [MapGet(@, recordId) EXCEPT
                                 !.unsubscribe = Append(@, handle)])]

\* The subscriber of the class branch: apply the difference only.
ClassSubscriber(st, n, v) ==
  LET expectedState == Classes(v)
      currentState == st.elements[n].currentState
      toRemove == ToRemove(currentState, expectedState)
      toAdd == ToAdd(currentState, expectedState)
  IN [st EXCEPT
        !.elements[n].classList = (@ \ toRemove) \cup toAdd,
        !.elements[n].currentState = expectedState,
        !.log = Append(@, [op |-> "class", node |-> n, before |-> currentState,
                           expected |-> expectedState, removed |-> toRemove,
                           added |-> toAdd])]

\* The mutant of AttributeSubscriber: a null value leaves the attribute.
AttributeSubscriberSetOnly(st, n, attributeName, v) ==
  IF NonNull(v) THEN SetAttribute(st, n, attributeName, StringOf(v)) ELSE st

\* The subscriber of the generic Signal branch.
AttributeSubscriber(st, n, attributeName, v) ==
  IF NonNull(v) THEN SetAttribute(st, n, attributeName, StringOf(v))
  ELSE RemoveAttribute(st, n, attributeName)

RECURSIVE InvokeBinding(_, _, _)
RECURSIVE SubscribeBinding(_, _, _)
RECURSIVE StyleEntries(_, _, _, _)

\* signal.subscribe(subscriber) for a fresh closure, and the push of the
\* returned handle on the Record.
SubscribeBinding(st, sid, sub) ==
  LET closure == [sub EXCEPT !.uid = st.closures + 1]
      st0 == [st EXCEPT !.closures = @ + 1]
      st1 == IF SubscribeGuard(st0.signals[sid].value)
             THEN InvokeBinding(st0, closure, st0.signals[sid].value) ELSE st0
      st2 == [st1 EXCEPT !.signals[sid].subs = SetAdd(@, closure)]
  IN PushUnsubscribe(st2, closure.rec, [sig |-> sid, sub |-> closure])

\* for (const [cssProperty, cssValue] of Object.entries(styleObj)) in the
\* subscriber of the reactive style branch, from entry k on.
StyleEntries(st, sub, fields, k) ==
  IF k > Len(fields) THEN st
  ELSE LET cssProperty == fields[k].name
           cssValue == fields[k].value
       IN StyleEntries(
            IF IsSubscribable(cssValue)
            THEN SubscribeBinding(st, cssValue.id,
                   [kind |-> "styleProperty", node |-> sub.node,
                    name |-> cssProperty, rec |-> sub.rec, uid |-> 0])
            ELSE SetStyle(st, sub.node, cssProperty, cssValue),
            sub, fields, k + 1)

\* A subscriber closure called with a value.
InvokeBinding(st, sub, v) ==
  IF sub.kind = "attribute" THEN AttributeSubscriber(st, sub.node, sub.name, v)
  ELSE IF sub.kind = "class" THEN ClassSubscriber(st, sub.node, v)
  ELSE IF sub.kind = "styleProperty" THEN SetStyle(st, sub.node, sub.name, v)
  ELSE IF v.t = "Object" THEN StyleEntries(st, sub, v.fields, 1)
  ELSE st

\* notify() on a bound Signal: the Set is walked as it is at each step.
RECURSIVE NotifyBindings(_, _, _)
NotifyBindings(st, sid, i) ==
  IF i > Len(st.signals[sid].subs) THEN st
  ELSE NotifyBindings(
         InvokeBinding(st, NextSubscriber(st.signals[sid].subs, i),
                       st.signals[sid].value),
         sid, i + 1)

\* set value(newValue) on a bound Signal.
AssignBinding(st, sid, nv) ==
  IF LooseEq(nv, st.signals[sid].value) THEN st
  ELSE NotifyBindings([st EXCEPT !.signals[sid].value = nv], sid, 1)

\* for (const item of record) in the class branch, from item k on.
RECURSIVE ClassItems(_, _, _, _, _)
ClassItems(st, n, recordId, items, k) ==
  IF k > Len(items) THEN st
  ELSE ClassItems(
         IF IsSubscribable(items[k])
         THEN SubscribeBinding(st, items[k].id,
                [kind |-> "class", node |-> n, name |-> ClassName,
                 rec |-> recordId, uid |-> 0])
         ELSE [st EXCEPT !.elements[n].classList = @ \cup {StringOf(items[k])}],
         n, recordId, items, k + 1)

\* for (const [name, value] of Object.entries(record.content)) of the two
\* static object branches, from entry k on.
RECURSIVE StaticStyle(_, _, _, _)
StaticStyle(st, n, fields, k) ==
  IF k > Len(fields) THEN st
  ELSE StaticStyle(SetStyle(st, n, fields[k].name, fields[k].value),
                   n, fields, k + 1)

RECURSIVE HandlerBag(_, _, _, _)
HandlerBag(st, n, fields, k) ==
  IF k > Len(fields) THEN st
  ELSE HandlerBag(
         IF fields[k].value.t = "function"
         THEN [st EXCEPT !.elements[n].props =
                           SetKey(@, fields[k].name, fields[k].value)]
         ELSE st,
         n, fields, k + 1)

\* The dispatch on one collected { attributeName, attributePayload }.
ProcessAttribute(st, n, attributeName, recordId) ==
  LET record == MapGet(st.db, recordId)
  IN IF IsSignalType(record) /\ IsStyleAttribute(record)
     THEN SubscribeBinding(st, record.content.id,
            [kind |-> "style", node |-> n, name |-> attributeName,
             rec |-> recordId, uid |-> 0])
     ELSE IF IsClassAttribute(record) /\ IsArrayType(record)
     THEN ClassItems([st EXCEPT !.elements[n].currentState = {}],
                     n, recordId, record.content.items, 1)
     ELSE IF IsSignalType(record)
     THEN SubscribeBinding(st, record.content.id,
            [kind |-> "attribute", node |-> n, name |-> attributeName,
             rec |-> recordId, uid |-> 0])
     ELSE IF IsObjectType(record) /\ IsStyleAttribute(record)
     THEN StaticStyle(st, n, record.content.fields, 1)
     ELSE IF IsObjectType(record)
     THEN HandlerBag(st, n, record.content.fields, 1)
     ELSE IF IsFunctionType(record)
     THEN [st EXCEPT !.elements[n].props = SetKey(@, attributeName, record.content)]
     ELSE IF IsStringType(record) \/ IsNumberType(record)
     THEN SetAttribute(st, n, attributeName, StringOf(record.content))
     ELSE IF NonNull(record.content)
     THEN SetAttribute(st, n, attributeName, StringOf(record.content))
     ELSE st

RECURSIVE ProcessAttributes(_, _, _)
ProcessAttributes(st, n, attributesToProcess) ==
  IF attributesToProcess = <<>> THEN st
  ELSE ProcessAttributes(
         ProcessAttribute(st, n, Head(attributesToProcess).attributeName,
                          Head(attributesToProcess).recordId),
         n, Tail(attributesToProcess))

\* The Records a spread marker's map gives, pushed for processing.
RECURSIVE SpreadFields(_, _, _, _)
SpreadFields(c, markerName, fields, k) ==
  IF k > Len(fields) THEN c
  ELSE LET recordId == markerName \o <<"-">> \o fields[k].name
           attributePayload ==
             MakeRecord(recordId, fields[k].value, "attributeValueAssignment",
                        fields[k].name)
       IN SpreadFields(
            [c EXCEPT !.st.db = MapSet(@, attributePayload),
                      !.toProcess = Append(@, [attributeName |-> fields[k].name,
                                               recordId |-> recordId])],
            markerName, fields, k + 1)

\* The mutant of LookupFailure: the call undoes what it did before raising.
LookupFailureRollingBack(c, st0) ==
  [c EXCEPT !.st = [st0 EXCEPT !.thrown = "Error"]]

\* throw new Error(`Record id "${recordId}" was not found in the database.`)
LookupFailure(c, st0) == [c EXCEPT !.st.thrown = "Error"]

\* The callback of node.attributes.forEach for the attribute at index i
\* (counted from 0); st0 is the state the whole call started from.
CollectAttribute(c, n, i, st0) ==
  LET attribute == c.st.elements[n].attributes[i + 1]
      c1 == IF StartsWithMarker(attribute.name)
            THEN LET c0 == IF MapHas(c.st.db, attribute.name)
                              /\ IsObjectType(MapGet(c.st.db, attribute.name))
                           THEN SpreadFields(c, attribute.name,
                                  MapGet(c.st.db, attribute.name).content.fields, 1)
                           ELSE c
                 IN [c0 EXCEPT !.st.elements[n].attributes[i + 1] = Hole]
            ELSE c
  IN IF attribute.hole THEN c
     ELSE IF StartsWithMarker(attribute.value.s)
     THEN IF ~MapHas(c1.st.db, attribute.value.s)
          THEN LookupFailure(c1, st0)
          ELSE [c1 EXCEPT
                  !.toProcess = Append(@, [attributeName |-> attribute.name,
                                           recordId |-> attribute.value.s]),
                  !.st.elements[n].attributes[i + 1] = Hole]
     ELSE c1

RECURSIVE CollectAttributes(_, _, _, _)
CollectAttributes(c, n, i, st0) ==
  IF i >= Len(c.st.elements[n].attributes) \/ c.st.thrown # "" THEN c
  ELSE CollectAttributes(CollectAttribute(c, n, i, st0), n, i + 1, st0)

\* root.walk(node => ...): the nodes from n on; an error ends the walk.
RECURSIVE WalkBindings(_, _, _)
WalkBindings(st, n, st0) ==
  IF n > Len(st.elements) \/ st.thrown # "" THEN st
  ELSE LET c == CollectAttributes([st |-> st, toProcess |-> <<>>], n, 0, st0)
       IN IF c.st.thrown # "" THEN c.st
          ELSE WalkBindings(ProcessAttributes(c.st, n, c.toProcess), n + 1, st0)

\* interpolateAttributes2(root, database)
InterpolateAttributes2State(st) == WalkBindings(st, 1, st)


\* The most attributes a node of the bound tree carries.
MaxBoundAttrs == 2

\* The ids of the Signals a template's values hold.
SignalIds == {SignalRef(n).id : n \in 1..4}

\* Token lists a class Signal emits; the third is a second array holding
\* what the first holds.
TokensAB == JsArray(<<"a", "b">>, 1)
TokensBC == JsArray(<<"b", "c">>, 1)
TokensAB2 == JsArray(<<"a", "b">>, 2)
TokenLists == {TokensAB, TokensBC, TokensAB2}

\* Style maps a style Signal emits: both hold the Signal id1 under k.
StyleK == JsObject(<<Field(<<"k">>, SignalRef(1))>>)
StyleKM == JsObject(<<Field(<<"k">>, SignalRef(1)), Field(<<"m">>, JsStr("x"))>>)

\* What each Signal may be assigned: id1 feeds a plain attribute or a style
\* property, id2 and id3 are items of a class list, id4 feeds a style
\* attribute.
AssignableTo(sid) ==
  IF sid = SignalRef(1).id THEN {JsNull, JsUndef, JsStr("a"), JsNum("1")}
  ELSE IF sid = SignalRef(4).id THEN {StyleK, StyleKM}
  ELSE TokenLists

\* The most subscriber closures there are: an assignment that would create
\* more is not made.
MaxClosures == 4

\* The attributes a node is written with: a direct marker, a class marker, a
\* style marker, a marker whose Record is absent, a spread marker and a
\* literal.
DirectAttr == Attr(<<"w">>, JsStr(RecordId(0)))
ClassAttr == Attr(ClassName, JsStr(RecordId(1)))
AbsentAttr == Attr(<<"h">>, JsStr(RecordId(7)))
SpreadAttr == Attr(RecordId(2), JsStr(<<>>))
LiteralAttr == Attr(<<"g">>, JsStr(<<"5">>))
StyleAttr == Attr(StyleName, JsStr(RecordId(3)))
BoundAttrOrder ==
  <<DirectAttr, ClassAttr, StyleAttr, AbsentAttr, SpreadAttr, LiteralAttr>>
BoundAttrs == Range(BoundAttrOrder)

\* Attribute lists without a repeated attribute, written in one order: the
\* absent marker comes after the bound markers and before the others.  A
\* tree with the style marker has no other marker bound to a Signal.
BoundAttrLists ==
  {l \in SeqsUpTo(BoundAttrs, MaxBoundAttrs) :
     /\ \A i, j \in DOMAIN l : i < j =>
          \E a, b \in DOMAIN BoundAttrOrder :
            a < b /\ l[i] = BoundAttrOrder[a] /\ l[j] = BoundAttrOrder[b]
     /\ StyleAttr \in Range(l) =>
          (DirectAttr \notin Range(l) /\ ClassAttr \notin Range(l))}

\* The values of the template behind the markers ::0, ::1 and ::2; the
\* value behind ::3 is the Signal id4.
DirectContents == {SignalRef(1), JsStr("a"), JsNull}
ClassContents ==
  {JsArray(<<JsStr("s"), SignalRef(2)>>, 0),
   JsArray(<<SignalRef(2), SignalRef(3)>>, 0)}
SpreadContent == JsObject(<<Field(<<"t">>, JsStr("a"))>>)

\* The database createStream leaves for these values.
BoundDatabase(direct, class) ==
  <<NewRecord(RecordId(0), direct, <<"<", "a", " ", "w", "=", "\"">>),
    NewRecord(RecordId(1), class,
              <<"<", "a", " ">> \o ClassName \o <<"=", "\"">>),
    NewRecord(RecordId(2), SpreadContent, OpenTagSegment),
    NewRecord(RecordId(3), SignalRef(4),
              <<"<", "a", " ">> \o StyleName \o <<"=", "\"">>)>>

\* A value is enumerated only when the tree has the attribute that reads it.
InitBindings ==
  /\ IdleSignal /\ IdleDecoder /\ IdleAttributes
  /\ strings = <<>> /\ values = <<>> /\ stream = <<>> /\ markup = <<>>
  /\ rootChildren = <<>> /\ results = <<>> /\ warned = <<>> /\ thrown = ""
  /\ \E l \in BoundAttrLists : \E k \in 0..Len(l) :
       /\ elements = <<NodeOf(SubSeq(l, 1, k)), NodeOf(SubSeq(l, k + 1, Len(l)))>>
       /\ \E direct \in IF DirectAttr \in Range(l) THEN DirectContents
                        ELSE {JsStr("a")},
             class \in IF ClassAttr \in Range(l) THEN ClassContents
                       ELSE {JsArray(<<JsStr("s"), SignalRef(2)>>, 0)} :
            /\ context = BoundDatabase(direct, class)
            /\ \E v1 \in IF direct = SignalRef(1) \/ StyleAttr \in Range(l)
                         THEN {JsNull, JsStr("a")} ELSE {JsNull},
                  v2 \in IF ClassAttr \in Range(l) THEN {JsNull, TokensAB}
                         ELSE {JsNull},
                  v4 \in IF StyleAttr \in Range(l) THEN {JsNull, StyleK}
                         ELSE {JsNull} :
                 signals = [sid \in SignalIds |->
                              [value |-> IF sid = SignalRef(1).id THEN v1
                                         ELSE IF sid = SignalRef(2).id THEN v2
                                         ELSE IF sid = SignalRef(4).id THEN v4
                                         ELSE TokensBC,
                               subs |-> <<>>]]
  /\ given = [elements |-> elements, context |-> context, signals |-> signals]
  /\ domOps = <<>> /\ closures = 0
  /\ phase = "parsed"

\* interpolateAttributes2(root, database) on the parsed tree.
InterpolateAttributes2 ==
  /\ phase = "parsed"
  /\ LET st == InterpolateAttributes2State(
                 BindState(elements, signals, context, closures, thrown, <<>>))
     IN /\ elements' = st.elements /\ signals' = st.signals
        /\ context' = st.db /\ closures' = st.closures
        /\ thrown' = st.thrown /\ domOps' = st.log
        /\ phase' = IF st.thrown = "" THEN "bound" ELSE "failed"
  /\ UNCHANGED <<given, rootChildren, results, warned, strings, values, stream,
                 markup, sigVars, decVars, attVars>>

\* signal.value = nv on one of the template's Signals that the call has
\* bound to a node.
AssignBound(sid, nv) ==
  /\ phase \in {"bound", "failed"}
  /\ signals[sid].subs # <<>>
  /\ LET st == AssignBinding(
                 BindState(elements, signals, context, closures, thrown, <<>>),
                 sid, nv)
     IN /\ st.closures <= MaxClosures
        /\ elements' = st.elements /\ signals' = st.signals
        /\ context' = st.db /\ closures' = st.closures
        /\ domOps' = st.log
  /\ UNCHANGED <<phase, thrown, given, rootChildren, results, warned, strings,
                 values, stream, markup, sigVars, decVars, attVars>>

\* The identifiers the arrow function returned by xml() can resolve: the
\* bindings of xml's body and the top-level bindings of its module.
XmlScope ==
  {"strings", "values", "context", "stream", "xml", "root", "unsubscribe",
   "parser", "Signal", "Record", "XMLParser", "createStream",
   "createIntermediateHtml", "parseElementAttributeValue",
   "interpolateAttributes", "interpolateNodes", "interpolateNodes3"}
Resolves(identifier) == identifier \in XmlScope

\* record.unsubscribe of the Records that pass both filters, flattened.
RECURSIVE FlatHandles(_)
FlatHandles(db) ==
  IF db = <<>> THEN <<>>
  ELSE (IF Head(db).isTemplateVariable /\ Len(Head(db).unsubscribe) > 0
        THEN Head(db).unsubscribe ELSE <<>>) \o FlatHandles(Tail(db))

\* unsubscribeFn(): () => this.#subscribers.delete(subscriber)
CallHandle(st, handle) ==
  [st EXCEPT !.signals[handle.sig].subs = SetDelete(@, handle.sub)]

RECURSIVE CallHandles(_, _)
CallHandles(st, fns) ==
  IF fns = <<>> THEN st
  ELSE CallHandles(CallHandle(st, Head(fns)), Tail(fns))

\* The cleanup callback xml() returns: it reads the identifier database.
UnsubscribeAll(st) ==
  IF ~Resolves("database") THEN [st EXCEPT !.thrown = "ReferenceError"]
  ELSE CallHandles(st, FlatHandles(st.db))

\* unsubscribe() on the result of a call that returned; what the callback
\* throws is logged with the operation.
Cleanup ==
  /\ phase = "bound"
  /\ LET st == UnsubscribeAll(
                 BindState(elements, signals, context, closures, "", <<>>))
     IN /\ signals' = st.signals
        /\ domOps' = <<[op |-> "cleanup", node |-> 0, name |-> <<>>,
                        str |-> st.thrown]>>
  /\ UNCHANGED <<phase, thrown, elements, context, closures, given, rootChildren,
                 results, warned, strings, values, stream, markup, sigVars,
                 decVars, attVars>>

\* record.unsubscribe.forEach(fn => fn()) on a Record of the returned
\* database that still has a subscriber registered.
UnsubscribeRecord(recordId) ==
  /\ phase \in {"bound", "failed"}
  /\ MapHas(context, recordId)
  /\ \E h \in Range(MapGet(context, recordId).unsubscribe) :
       h.sub \in Range(signals[h.sig].subs)
  /\ LET st == CallHandles(
                 BindState(elements, signals, context, closures, "", <<>>),
                 MapGet(context, recordId).unsubscribe)
     IN signals' = st.signals
  /\ domOps' = <<>>
  /\ UNCHANGED <<phase, thrown, elements, context, closures, given, rootChildren,
                 results, warned, strings, values, stream, markup, sigVars,
                 decVars, attVars>>

NextBindings ==
  \/ InterpolateAttributes2
  \/ \E sid \in SignalIds : \E nv \in AssignableTo(sid) : AssignBound(sid, nv)
  \/ Cleanup
  \/ \E recordId \in MapKeys(context) : UnsubscribeRecord(recordId)

SpecBindings == InitBindings /\ [][NextBindings]_vars


(***************************************************************************)
(* Claims about interpolateAttributes2.                                    *)
(***************************************************************************)
\* The positions of the class subscriber's entries in an operation's log.
ClaimClassOps(ops) == {k \in DOMAIN ops : ops[k].op = "class"}

\* The tokens of the list a Signal holds.
ClaimTokens(v) == {v.items[i] : i \in DOMAIN v.items}

\* C8: on each emission of a reactive item of a class list, the tokens both
\* in the previously applied set and in the newly expected set are neither
\* removed nor added, the tokens only in the old set are removed, the tokens
\* only in the new set are added, and the tracked set becomes the expected
\* set; the expected set is the emitted list's tokens, and the node's class
\* list changes by exactly that difference.
C8_ClassEmissionAppliesOnlyTheDifference ==
  [][\A k \in ClaimClassOps(domOps') :
       LET e == domOps'[k]
           sameNode == {j \in ClaimClassOps(domOps') : domOps'[j].node = e.node}
       IN /\ e.removed \cap e.expected = {}
          /\ e.added \cap e.before = {}
          /\ e.removed = e.before \ e.expected
          /\ e.added = e.expected \ e.before
          /\ (phase # "parsed" /\ Cardinality(sameNode) = 1) =>
               /\ \E sid \in SignalIds :
                    /\ signals'[sid].value # signals[sid].value
                    /\ e.expected = ClaimTokens(signals'[sid].value)
               /\ e.before = elements[e.node].currentState
               /\ elements'[e.node].currentState = e.expected
               /\ elements'[e.node].classList =
                    (elements[e.node].classList \ e.removed) \cup e.added
    ]_vars

\* A list that applied {a, b} emits [b, c]: a is removed, c is added and b
\* stays on the node.
C8_Witness ==
  \E k \in ClaimClassOps(domOps) :
    /\ domOps[k].before = {"a", "b"} /\ domOps[k].expected = {"b", "c"}
    /\ domOps[k].removed = {"a"} /\ domOps[k].added = {"c"}
    /\ elements[domOps[k].node].classList \cap {"a", "b", "c"} = {"b", "c"}
    /\ elements[domOps[k].node].currentState = {"b", "c"}

\* An attribute whose value is a record id the database does not have.
ClaimAbsent(attribute, db) ==
  /\ ~attribute.hole
  /\ StartsWithMarker(attribute.value.s)
  /\ ~MapHas(db, attribute.value.s)

ClaimFailingNodes(els, db) ==
  {n \in DOMAIN els : \E a \in Range(els[n].attributes) : ClaimAbsent(a, db)}

ClaimFirst(S) == CHOOSE n \in S : \A m \in S : n <= m

\* The nodes m .. n - 1 collected and bound, and nothing else.
RECURSIVE ClaimBindNodes(_, _, _)
ClaimBindNodes(st, m, n) ==
  IF m >= n THEN st
  ELSE LET c == CollectAttributes([st |-> st, toProcess |-> <<>>], m, 0, st)
       IN ClaimBindNodes(ProcessAttributes(c.st, m, c.toProcess), m + 1, n)

\* The node still carries the attribute written as a.
ClaimHasAttr(node, a) ==
  \E i \in DOMAIN node.attributes :
    ~node.attributes[i].hole /\ node.attributes[i].name = a.name

\* The surfaces a binding writes on a node.
ClaimSurfaces(node) ==
  <<node.applied, node.classList, node.currentState, node.style, node.props>>

ClaimLiveSubscribers(sigs) ==
  UNION {Range(sigs[sid].subs) : sid \in DOMAIN sigs}

\* C11: an invocation of the cleanup callback returned by xml() raises no
\* error and leaves no subscriber of the call's bindings on any Signal (a
\* second invocation then has nothing left to change).
C11_Claim_CleanupRemovesEverySubscriber ==
  [][(domOps' # <<>> /\ domOps'[1].op = "cleanup") =>
       /\ domOps'[1].str = ""
       /\ ClaimLiveSubscribers(signals') = {}
    ]_vars


\* The nodes the call bound: all of them, or those before the failing one.
ClaimBoundNodes ==
  IF ClaimFailingNodes(given.elements, given.context) = {}
  THEN DOMAIN given.elements
  ELSE {n \in DOMAIN given.elements :
          n < ClaimFirst(ClaimFailingNodes(given.elements, given.context))}

\* The values a node has for an attribute name.
ClaimAttributeValues(node, name) == {q[2] : q \in {r \in node.applied : r[1] = name}}

\* C14: for an attribute bound through a direct marker to a Signal, after
\* the binding and after any assignments, the unsubscribe handle is recorded
\* on the Record, and while that handle has not been called the node has the
\* attribute with the string form of the Signal's value when the value is not
\* null or undefined, and does not have the attribute when it is.
C14_DirectSignalAttributeFollowsValue ==
  phase \in {"bound", "failed"} =>
    \A n \in ClaimBoundNodes :
      (/\ ClaimHasAttr(given.elements[n], DirectAttr)
       /\ MapGet(given.context, RecordId(0)).content = SignalRef(1)) =>
        LET record == MapGet(context, RecordId(0))
            v == signals[SignalRef(1).id].value
            has == ClaimAttributeValues(elements[n], DirectAttr.name)
        IN /\ Len(record.unsubscribe) = 1
           /\ record.unsubscribe[1].sig = SignalRef(1).id
           /\ record.unsubscribe[1].sub.node = n
           /\ record.unsubscribe[1].sub \in Range(signals[SignalRef(1).id].subs) =>
                IF v \in {JsNull, JsUndef} THEN has = {}
                ELSE has = {IF v = JsStr("a") THEN "a" ELSE "1"}

\* The Signal held "a" when it was bound and was assigned null since: the
\* handle is uncalled and the node no longer has the attribute.
C14_Witness ==
  /\ phase = "bound"
  /\ \E n \in DOMAIN elements :
       /\ ClaimHasAttr(given.elements[n], DirectAttr)
       /\ MapGet(given.context, RecordId(0)).content = SignalRef(1)
       /\ given.signals[SignalRef(1).id].value = JsStr("a")
       /\ signals[SignalRef(1).id].value = JsNull
       /\ Len(MapGet(context, RecordId(0)).unsubscribe) = 1
       /\ MapGet(context, RecordId(0)).unsubscribe[1].sub
            \in Range(signals[SignalRef(1).id].subs)
       /\ ClaimAttributeValues(elements[n], DirectAttr.name) = {}

\* C16: for a style attribute bound to a Signal whose map holds a Signal,
\* the nested Signal has at most one subscriber per node and css property,
\* whatever the outer Signal emitted, and the Record's cleanup list holds no
\* more than the outer handle and one handle per such property.
C16_Claim_OneNestedSubscriptionPerProperty ==
  /\ \A sid \in DOMAIN signals :
       \A c1, c2 \in Range(signals[sid].subs) :
         (/\ c1.kind = "styleProperty" /\ c2.kind = "styleProperty"
          /\ c1.node = c2.node /\ c1.name = c2.name) => c1 = c2
  /\ \A i \in DOMAIN context :
       context[i].id = RecordId(3) => Len(context[i].unsubscribe) <= 2


(***************************************************************************)
(* Claims about the Signal.  The claims state loose equality and           *)
(* nullness by listing the pairs and values concerned.                     *)
(***************************************************************************)
ClaimLooselyEqual(a, b) ==
  \/ a = b /\ a # JsNaN
  \/ {a, b} = {JsNull, JsUndef}
  \/ {a, b} = {JsNum("0"), JsStr("0")}

ClaimNullish(v) == v \in {JsNull, JsUndef}

DeliveriesTo(log, c) == SelectSeq(log, LAMBDA d : d.cb = c)
DirectDeliveries(log) == SelectSeq(log, LAMBDA d : d.via = "subscribe")

\* C1: assigning a value loosely equal (==) to the current one changes
\* nothing and invokes no subscriber; assigning a loosely unequal value
\* stores it and notifies (the first subscriber invoked receives it).
C1_LooseEqualAssignIsNoOp ==
  [][ lastOp'.op = "set" =>
        IF ClaimLooselyEqual(lastOp'.v, value)
        THEN value' = value /\ delivered' = <<>> /\ subscribers' = subscribers
        ELSE /\ "r" \notin Range(subscribers) => value' = lastOp'.v
             /\ subscribers # <<>> =>
                  /\ delivered' # <<>>
                  /\ delivered'[1].v = lastOp'.v ]_vars

\* C1 witness: "0" was assigned to a Signal holding 0 with a subscriber
\* registered, and nobody was invoked.
C1_Witness ==
  /\ lastOp.op = "set" /\ lastOp.v = JsStr("0") /\ value = JsNum("0")
  /\ subscribers # <<>> /\ delivered = <<>>

\* C2: subscribe(cb) invokes cb directly exactly once, first, with the
\* current value iff that value is neither null nor undefined; cb is
\* registered afterwards, and a value-changing assignment reaches every
\* registered callback.
C2_SubscribeDeliversNonNullThenRegisters ==
  [][ /\ lastOp'.op = "sub" =>
           /\ IF ClaimNullish(value)
              THEN delivered' = <<>>
              ELSE /\ delivered'[1] =
                        [cb |-> lastOp'.cb, v |-> value, via |-> "subscribe"]
                   /\ Len(DirectDeliveries(delivered')) = 1
           /\ lastOp'.cb \in Range(subscribers')
      /\ (lastOp'.op = "set" /\ ~ClaimLooselyEqual(lastOp'.v, value)) =>
           \A c \in Range(subscribers) : DeliveriesTo(delivered', c) # <<>> ]_vars

\* C2 witness: a subscribe call on a Signal holding 0 invoked the new
\* subscriber once and registered it.
C2_Witness ==
  /\ lastOp.op = "sub" /\ lastOp.cb = "a"
  /\ delivered = <<[cb |-> "a", v |-> JsNum("0"), via |-> "subscribe"]>>
  /\ "a" \in Range(subscribers)

\* C3 as stated: a subscription whose handle was never invoked keeps
\* receiving (its callback stays registered), also when another
\* subscription was made with the same callback and that one's handle was
\* invoked.
C3_Original_OnlyThatSubscriptionRemoved ==
  \A i \in DOMAIN handles :
    ~handles[i].called => handles[i].cb \in Range(subscribers)

\* C3 amended: invoking a handle removes the callback it was created with
\* from the subscriber set and nothing else (no invocation, value kept, the
\* other callbacks keep their order); an assignment invokes registered
\* callbacks only; invoking a handle whose callback is not registered
\* changes nothing.
C3_HandleRemovesItsCallback ==
  [][ /\ lastOp'.op = "unsub" =>
           /\ lastOp'.cb = handles[lastOp'.h].cb
           /\ lastOp'.cb \notin Range(subscribers')
           /\ \A c \in Callbacks \ {lastOp'.cb} :
                DeliveriesTo([i \in DOMAIN subscribers' |->
                               [cb |-> subscribers'[i]]], c)
                = DeliveriesTo([i \in DOMAIN subscribers |->
                               [cb |-> subscribers[i]]], c)
           /\ Len(subscribers') = Len(subscribers)
                - (IF lastOp'.cb \in Range(subscribers) THEN 1 ELSE 0)
           /\ \A i, j \in DOMAIN subscribers' :
                i < j => \E k, l \in DOMAIN subscribers :
                           /\ k < l
                           /\ subscribers[k] = subscribers'[i]
                           /\ subscribers[l] = subscribers'[j]
           /\ delivered' = <<>> /\ value' = value
           /\ lastOp'.cb \notin Range(subscribers) => subscribers' = subscribers
      /\ lastOp'.op = "set" =>
           \A i \in DOMAIN delivered' : delivered'[i].cb \in Range(subscribers)
    ]_vars

\* C3 witness: a handle was invoked, its callback is gone and another
\* callback's subscription is still registered.
C3_Witness ==
  /\ lastOp.op = "unsub" /\ lastOp.cb = "a"
  /\ "a" \notin Range(subscribers) /\ "b" \in Range(subscribers)

\* C4 as stated: a value-changing assignment invokes every registered
\* subscriber with the newly stored value, also under re-entrant assignment.
C4_Original_EachGetsTheNewValue ==
  [][ (lastOp'.op = "set" /\ ~ClaimLooselyEqual(lastOp'.v, value)) =>
        \A c \in Range(subscribers) :
          \E i \in DOMAIN delivered' :
            delivered'[i].cb = c /\ delivered'[i].v = lastOp'.v ]_vars

FirstDelivery(log, c) == CHOOSE i \in DOMAIN log :
  log[i].cb = c /\ \A j \in DOMAIN log : log[j].cb = c => i <= j

LastDelivery(log, c) == CHOOSE i \in DOMAIN log :
  log[i].cb = c /\ \A j \in DOMAIN log : log[j].cb = c => j <= i

\* C4 amended: a value-changing assignment invokes, before it returns, every
\* registered subscriber, first invocations in registration order, each
\* with the value the Signal holds at that invocation: with no re-entrant
\* assignment that is the new value, once each; when a subscriber assigns
\* the Signal during notification, the subscribers after it receive the
\* value it stored instead, and every subscriber's last invocation carries
\* the value finally stored.
C4_NotifyInRegistrationOrder ==
  [][ (lastOp'.op = "set" /\ ~ClaimLooselyEqual(lastOp'.v, value)) =>
        /\ \A c \in Range(subscribers) : DeliveriesTo(delivered', c) # <<>>
        /\ \A i, j \in DOMAIN subscribers :
             i < j => FirstDelivery(delivered', subscribers[i])
                        < FirstDelivery(delivered', subscribers[j])
        /\ "r" \notin Range(subscribers) =>
             delivered' = [i \in DOMAIN subscribers |->
                [cb |-> subscribers[i], v |-> lastOp'.v, via |-> "notify"]]
        /\ \A c \in Range(subscribers) :
             delivered'[LastDelivery(delivered', c)].v = value'
        /\ \A i \in DOMAIN delivered' :
             delivered'[i].v \in {lastOp'.v, ReassignTo} ]_vars

\* C4 witness: with "r" registered before "a", NaN was assigned; "r" stored
\* 1 from inside the notification and "a" was invoked with 1 only.
C4_Witness ==
  /\ lastOp.op = "set" /\ lastOp.v = JsNaN /\ value = ReassignTo
  /\ subscribers = <<"r", "a">>
  /\ Len(delivered) = 4
  /\ \A i \in DOMAIN delivered :
       delivered[i].cb = "a" => delivered[i].v = ReassignTo

=============================================================================
